---- MODULE Spec2Model ----
(***************************************************************************)
(* dotman: a dotfiles manager.  Files under the home directory are moved   *)
(* into the store (~/.dotman), replaced by symlinks and recorded in the    *)
(* manifest (index.json).                                                  *)
(*                                                                         *)
(* Strings are sequences of one-character strings.  A path value is the    *)
(* cleaned absolute path as a sequence of segments, each segment a string. *)
(* The filesystem is a function from the paths that exist to their nodes.  *)
(***************************************************************************)
EXTENDS Integers, Sequences, FiniteSets, TLC

VARIABLES fs, idx, last, prev, steps

vars == <<fs, idx, last, prev, steps>>

(***************************************************************************)
(* Bounds of the model.                                                    *)
(***************************************************************************)
\* commands run in one behaviour
MaxSteps == 3
\* paths given to one add / remove invocation
MaxArgs == 2
\* symbolic links followed in one path resolution before ELOOP
MaxSymlinkHops == 4

(***************************************************************************)
(* strings                                                                 *)
(***************************************************************************)
HasPrefix(s, pre) == Len(pre) <= Len(s) /\ SubSeq(s, 1, Len(pre)) = pre

HasSuffix(s, suf) ==
    Len(suf) <= Len(s) /\ SubSeq(s, Len(s) - Len(suf) + 1, Len(s)) = suf

Contains(s, sub) ==
    \E i \in 1..(Len(s) - Len(sub) + 1) : SubSeq(s, i, i + Len(sub) - 1) = sub

RECURSIVE Split(_)
\* the segments of s between its "/" separators (empty segments kept)
Split(s) ==
    IF s = <<>> THEN << <<>> >>
    ELSE LET rest == Split(Tail(s))
         IN  IF Head(s) = "/" THEN << <<>> >> \o rest
             ELSE << <<Head(s)>> \o Head(rest) >> \o Tail(rest)

RECURSIVE CleanFrom(_, _)
\* filepath.Clean of an absolute path: acc is the cleaned part, segs the rest
CleanFrom(acc, segs) ==
    IF segs = <<>> THEN acc
    ELSE LET s == Head(segs)
         IN  IF s = <<>> \/ s = <<".">> THEN CleanFrom(acc, Tail(segs))
             ELSE IF s = <<".", ".">>
                  THEN CleanFrom(IF acc = <<>> THEN acc
                                 ELSE SubSeq(acc, 1, Len(acc) - 1), Tail(segs))
                  ELSE CleanFrom(Append(acc, s), Tail(segs))

RECURSIVE JoinSlash(_)
\* the segments joined by "/"
JoinSlash(segs) ==
    IF segs = <<>> THEN <<>>
    ELSE IF Len(segs) = 1 THEN Head(segs)
    ELSE Head(segs) \o <<"/">> \o JoinSlash(Tail(segs))

\* the string form of a path value
Str(p) == <<"/">> \o JoinSlash(p)

\* filepath.Join(base, rel) for an absolute base
Join(base, rel) == CleanFrom(base, Split(rel))

\* filepath.Dir of a path value
Dir(p) == IF p = <<>> THEN p ELSE SubSeq(p, 1, Len(p) - 1)

IsPrefixPath(a, b) == Len(a) <= Len(b) /\ SubSeq(b, 1, Len(a)) = a

(***************************************************************************)
(* configuration (config.New)                                              *)
(***************************************************************************)
DotmanDirName == <<".", "d", "o", "t", "m", "a", "n">>
IndexFileName == <<"i", "n", "d", "e", "x", ".", "j", "s", "o", "n">>
GitDirName == <<".", "g", "i", "t">>
GitignoreName == <<".", "g", "i", "t", "i", "g", "n", "o", "r", "e">>

HomeDir == << <<"h">> >>
DotmanDir == Join(HomeDir, DotmanDirName)
IndexFile == Join(DotmanDir, IndexFileName)
\* the working directory of the process
Cwd == HomeDir

\* filepath.Abs
Abs(raw) ==
    IF raw # <<>> /\ Head(raw) = "/" THEN CleanFrom(<<>>, Split(raw))
    ELSE CleanFrom(Cwd, Split(raw))

RECURSIVE CommonLen(_, _)
CommonLen(a, b) ==
    IF a = <<>> \/ b = <<>> \/ Head(a) # Head(b) THEN 0
    ELSE 1 + CommonLen(Tail(a), Tail(b))

\* filepath.Rel(base, targ) of two cleaned absolute paths, as a string
RelStr(base, targ) ==
    IF base = targ THEN <<".">>
    ELSE LET k == CommonLen(base, targ)
         IN  JoinSlash([i \in 1..(Len(base) - k) |-> <<".", ".">>]
                       \o SubSeq(targ, k + 1, Len(targ)))

\* IsInsideHome rejecting only the parent of the home directory itself
IsInsideHomeUnlessParent(p) == RelStr(HomeDir, p) # <<".", ".">>

IsInsideHome(p) == ~HasPrefix(RelStr(HomeDir, p), <<".", ".">>)

ExpandPath(raw) ==
    LET p == IF raw = <<"~">> THEN HomeDir
             ELSE IF HasPrefix(raw, <<"~", "/">>)
                  THEN Join(HomeDir, SubSeq(raw, 3, Len(raw)))
                  ELSE Abs(raw)
    IN  [ok |-> IsInsideHome(p), p |-> p]

RelativeToHome(p) == [ok |-> IsInsideHome(p), rel |-> RelStr(HomeDir, p)]

(***************************************************************************)
(* filesystem (the os package calls made by fileops, config, git and cli). *)
(* An operation with a result is written in steps: the step that makes a   *)
(* call hands its result to the step that acts on it.                      *)
(***************************************************************************)
DirNode == [t |-> "dir", c |-> "", to |-> <<>>]
FileNode(c) == [t |-> "file", c |-> c, to |-> <<>>]
LinkNode(to) == [t |-> "link", c |-> "", to |-> to]

RECURSIVE Resolve(_, _, _, _, _)
\* Path resolution: done is a real directory, rest the segments still to walk.
\* A symlink in the middle of a path is always followed, the last segment only
\* when follow is set.  ok with p outside DOMAIN f: only the last segment is
\* missing.
Resolve(f, done, rest, follow, fuel) ==
    IF rest = <<>> THEN [ok |-> TRUE, p |-> done]
    ELSE LET q == Append(done, Head(rest))
             lastSeg == Len(rest) = 1
         IN  IF q \notin DOMAIN f THEN [ok |-> lastSeg, p |-> q]
             ELSE IF f[q].t = "link"
                  THEN IF lastSeg /\ ~follow THEN [ok |-> TRUE, p |-> q]
                       ELSE IF fuel = 0 THEN [ok |-> FALSE, p |-> q]
                       ELSE Resolve(f, <<>>, f[q].to \o Tail(rest), follow, fuel - 1)
                  ELSE IF f[q].t = "dir" THEN Resolve(f, q, Tail(rest), follow, fuel)
                  ELSE [ok |-> lastSeg, p |-> q]

Loc(f, p, follow) == Resolve(f, <<>>, p, follow, MaxSymlinkHops)

\* the result of a stat call from the resolved location: ok and where
Found(f, r) == [ok |-> r.ok /\ r.p \in DOMAIN f, p |-> r.p]

\* os.Stat
Stat(f, p) == Found(f, Loc(f, p, TRUE))
\* os.Lstat
Lstat(f, p) == Found(f, Loc(f, p, FALSE))

\* the kind of the object a stat call found
TypeAt(f, s) == IF s.ok THEN f[s.p].t ELSE "none"

PathExists(f, p) == Stat(f, p).ok
IsSymlink(f, p) == TypeAt(f, Lstat(f, p)) = "link"
IsDirectory(f, p) == TypeAt(f, Stat(f, p)) = "dir"
GetFileType(f, p) == IF IsDirectory(f, p) THEN "directory" ELSE "file"

MkdirAt(f, r) ==
    IF r.ok /\ r.p \notin DOMAIN f
    THEN [ok |-> TRUE, fs |-> (r.p :> DirNode) @@ f]
    ELSE [ok |-> FALSE, fs |-> f]

Mkdir(f, p) == MkdirAt(f, Loc(f, p, FALSE))

\* os.MkdirAll, last step: Mkdir failed, which is fine if a directory is there
MkdirAllMade(f, p, m) ==
    IF m.ok THEN m ELSE [ok |-> TypeAt(f, Lstat(f, p)) = "dir", fs |-> f]

\* os.MkdirAll once the parent was made (or not)
MkdirAllIn(par, p) ==
    IF ~par.ok THEN par ELSE MkdirAllMade(par.fs, p, Mkdir(par.fs, p))

RECURSIVE MkdirAll(_, _)
MkdirAll(f, p) ==
    IF PathExists(f, p) THEN [ok |-> IsDirectory(f, p), fs |-> f]
    ELSE MkdirAllIn(IF p = <<>> THEN [ok |-> TRUE, fs |-> f]
                    ELSE MkdirAll(f, Dir(p)), p)

\* the tree at o moved to n
MoveTree(f, o, n) ==
    LET sub == {q \in DOMAIN f : IsPrefixPath(o, q)}
        keep == (DOMAIN f \ sub) \ {n}
    IN  [x \in keep \cup {n \o SubSeq(q, Len(o) + 1, Len(q)) : q \in sub} |->
            IF x \in keep THEN f[x] ELSE f[o \o SubSeq(x, Len(n) + 1, Len(x))]]

RenameAt(f, o, n) ==
    IF ~(o.ok /\ o.p \in DOMAIN f) \/ ~n.ok THEN [ok |-> FALSE, fs |-> f]
    ELSE IF o.p = n.p THEN [ok |-> TRUE, fs |-> f]
    ELSE IF n.p \in DOMAIN f /\ f[n.p].t = "dir" THEN [ok |-> FALSE, fs |-> f]
    ELSE IF n.p \in DOMAIN f /\ f[o.p].t = "dir" THEN [ok |-> FALSE, fs |-> f]
    ELSE IF IsPrefixPath(o.p, n.p) THEN [ok |-> FALSE, fs |-> f]
    ELSE [ok |-> TRUE, fs |-> MoveTree(f, o.p, n.p)]

\* os.Rename: the last segment of either path is not followed; a directory in
\* the way is an error, a file in the way is replaced
Rename(f, old, new) == RenameAt(f, Loc(f, old, FALSE), Loc(f, new, FALSE))

SymlinkAt(f, target, l) ==
    IF l.ok /\ l.p \notin DOMAIN f
    THEN [ok |-> TRUE, fs |-> (l.p :> LinkNode(target)) @@ f]
    ELSE [ok |-> FALSE, fs |-> f]

\* os.Symlink(target, link)
Symlink(f, target, link) == SymlinkAt(f, target, Loc(f, link, FALSE))

RemoveAt(f, l) ==
    IF l.ok /\ l.p \in DOMAIN f /\ l.p # <<>>
       /\ ~\E q \in DOMAIN f : q # l.p /\ IsPrefixPath(l.p, q)
    THEN [ok |-> TRUE, fs |-> [q \in DOMAIN f \ {l.p} |-> f[q]]]
    ELSE [ok |-> FALSE, fs |-> f]

\* os.Remove: a file, a symlink or an empty directory
Remove(f, p) == RemoveAt(f, Loc(f, p, FALSE))

RemoveAllAt(f, l) ==
    IF l.ok /\ l.p # <<>>
    THEN [q \in {x \in DOMAIN f : ~IsPrefixPath(l.p, x)} |-> f[q]]
    ELSE f

\* os.RemoveAll
RemoveAll(f, p) == RemoveAllAt(f, Loc(f, p, FALSE))

WriteAt(f, l, c) ==
    IF l.ok /\ (l.p \in DOMAIN f => f[l.p].t = "file")
    THEN [ok |-> TRUE,
          fs |-> [q \in DOMAIN f \cup {l.p} |-> IF q = l.p THEN FileNode(c) ELSE f[q]]]
    ELSE [ok |-> FALSE, fs |-> f]

\* os.WriteFile: follows a symlink at p, creates the file when it is missing
WriteFile(f, p, c) == WriteAt(f, Loc(f, p, TRUE), c)

(***************************************************************************)
(* fileops                                                                 *)
(***************************************************************************)
MoveToRepoIn(d, originalPath, repoPath) ==
    IF ~d.ok THEN [ok |-> FALSE, fs |-> d.fs]
    ELSE Rename(d.fs, originalPath, repoPath)

MoveToRepo(f, originalPath, repoPath) ==
    MoveToRepoIn(MkdirAll(f, Dir(repoPath)), originalPath, repoPath)

CreateSymlinkIn(d, originalPath, repoPath) ==
    IF ~d.ok THEN [ok |-> FALSE, fs |-> d.fs]
    ELSE Symlink(d.fs, repoPath, originalPath)

CreateSymlink(f, originalPath, repoPath) ==
    CreateSymlinkIn(MkdirAll(f, Dir(originalPath)), originalPath, repoPath)

\* RemoveSymlink after os.Remove of the link
RestoreFromRepo(r, originalPath, repoPath) ==
    IF ~r.ok THEN r ELSE Rename(r.fs, repoPath, originalPath)

\* RemoveSymlink that removes the link and leaves the file in the repo
RemoveSymlinkOnly(f, originalPath, repoPath) ==
    IF ~IsSymlink(f, originalPath) THEN [ok |-> FALSE, fs |-> f]
    ELSE Remove(f, originalPath)

RemoveSymlink(f, originalPath, repoPath) ==
    IF ~IsSymlink(f, originalPath) THEN [ok |-> FALSE, fs |-> f]
    ELSE RestoreFromRepo(Remove(f, originalPath), originalPath, repoPath)

\* RemoveSymlink whose os.Rename fails: the link is removed, the file stays
\* in the repo
RemoveSymlinkUnrestored(f, originalPath, repoPath) ==
    IF ~IsSymlink(f, originalPath) THEN [ok |-> FALSE, fs |-> f]
    ELSE [ok |-> FALSE, fs |-> Remove(f, originalPath).fs]

(***************************************************************************)
(* The environment.  A command's state st carries st.fault, the kind of    *)
(* call the operating system fails while the command runs ("none": no call *)
(* fails but for what the filesystem itself makes fail).                   *)
(***************************************************************************)
\* the result r of a call on the filesystem f, or the error of the call when
\* the environment fails calls of this kind
Call(st, kind, f, r) == IF st.fault = kind THEN [ok |-> FALSE, fs |-> f] ELSE r

(***************************************************************************)
(* index                                                                   *)
(***************************************************************************)
ManagedFile(originalPath, repoPath, type) ==
    [OriginalPath |-> originalPath, RepoPath |-> repoPath, Type |-> type]

\* index.Load: a missing index.json is an empty index.  ix is index.json's content.
Load(f, ix) == IF PathExists(f, IndexFile) THEN ix ELSE <<>>

\* AddFile recording every entry as a file
AddFileAsFile(ix, originalPath, repoPath, type) ==
    Append(ix, ManagedFile(originalPath, repoPath, "file"))

AddFile(ix, originalPath, repoPath, type) ==
    Append(ix, ManagedFile(originalPath, repoPath, type))

\* the first entry with this original path, 0 when there is none
IndexOf(ix, originalPath) ==
    IF \E i \in 1..Len(ix) : ix[i].OriginalPath = originalPath
    THEN CHOOSE i \in 1..Len(ix) :
            /\ ix[i].OriginalPath = originalPath
            /\ \A j \in 1..(i - 1) : ix[j].OriginalPath # originalPath
    ELSE 0

RemoveAtIndex(ix, i) ==
    IF i = 0 THEN ix ELSE SubSeq(ix, 1, i - 1) \o SubSeq(ix, i + 1, Len(ix))

RemoveFile(ix, originalPath) == RemoveAtIndex(ix, IndexOf(ix, originalPath))

\* IsManaged looking the path up among the repo paths
IsManagedByRepoPath(ix, originalPath) ==
    \E i \in 1..Len(ix) : Join(DotmanDir, ix[i].RepoPath) = originalPath

IsManaged(ix, originalPath) == IndexOf(ix, originalPath) # 0

FindFile(ix, originalPath) == ix[IndexOf(ix, originalPath)]

SaveWritten(st, ix, w) ==
    IF w.ok THEN [ok |-> TRUE, st |-> [st EXCEPT !.fs = w.fs, !.ix = ix]]
    ELSE [ok |-> FALSE, st |-> st]

\* index.Save: index.json rewritten whole
Save(st, ix) ==
    SaveWritten(st, ix, Call(st, "save", st.fs, WriteFile(st.fs, IndexFile, "index")))

(***************************************************************************)
(* git.  A command's state st is [fs, ix, commits, fault]: the filesystem, *)
(* the content of index.json, the number of git commits the command made,  *)
(* and the environment's fault.                                            *)
(***************************************************************************)
GitDir == Join(DotmanDir, GitDirName)

IsGitRepo(f) == PathExists(f, GitDir)

\* git.Add then git.Commit
Commit(st) == [st EXCEPT !.commits = @ + 1]

EnsureDotmanDir(f) == MkdirAll(f, DotmanDir)

DotmanDirExists(f) == PathExists(f, DotmanDir)

IndexFileExists(f) == PathExists(f, IndexFile)

\* EnsureRepo after CreateGitignore
InitialCommit(st, w) ==
    IF ~w.ok THEN [ok |-> FALSE, st |-> st]
    ELSE [ok |-> TRUE, st |-> Commit([st EXCEPT !.fs = w.fs])]

\* EnsureRepo after InitRepo
InitRepoDone(st, g) ==
    IF ~g.ok THEN [ok |-> FALSE, st |-> st]
    ELSE InitialCommit([st EXCEPT !.fs = g.fs],
                       WriteFile(g.fs, Join(DotmanDir, GitignoreName), "gitignore"))

EnsureRepo(st) ==
    IF IsGitRepo(st.fs) THEN [ok |-> TRUE, st |-> st]
    ELSE InitRepoDone(st, Mkdir(st.fs, GitDir))

(***************************************************************************)
(* add                                                                     *)
(***************************************************************************)
\* runAdd after idx.Save: git.Add and git.Commit
AddSaved(s) ==
    IF ~s.ok THEN [st |-> s.st, err |-> "save"]
    ELSE IF s.st.fault = "commit" THEN [st |-> s.st, err |-> "commit"]
    ELSE [st |-> Commit(s.st), err |-> ""]

\* runAdd that leaves the file in the repo when the symlink cannot be made
AddLinkedNoRollback(st, ix, l, expandedPath, relPath, repoPath, fileType) ==
    IF ~l.ok THEN [st |-> [st EXCEPT !.fs = l.fs], err |-> "symlink"]
    ELSE AddSaved(Save([st EXCEPT !.fs = l.fs],
                       AddFile(ix, expandedPath, relPath, fileType)))

\* runAdd after fileops.CreateSymlink: a failure moves the file back
AddLinked(st, ix, l, expandedPath, relPath, repoPath, fileType) ==
    IF ~l.ok
    THEN [st |-> [st EXCEPT !.fs = Rename(l.fs, repoPath, expandedPath).fs],
          err |-> "symlink"]
    ELSE AddSaved(Save([st EXCEPT !.fs = l.fs],
                       AddFile(ix, expandedPath, relPath, fileType)))

\* runAdd after fileops.MoveToRepo
AddMoved(st, ix, m, expandedPath, relPath, repoPath, fileType) ==
    IF ~m.ok THEN [st |-> [st EXCEPT !.fs = m.fs], err |-> "move"]
    ELSE AddLinked(st, ix,
                   Call(st, "symlink", m.fs, CreateSymlink(m.fs, expandedPath, repoPath)),
                   expandedPath, relPath, repoPath, fileType)

\* runAdd once the repo path and the file type are known
AddAs(st, ix, expandedPath, relPath, repoPath, fileType) ==
    AddMoved(st, ix, Call(st, "move", st.fs, MoveToRepo(st.fs, expandedPath, repoPath)),
             expandedPath, relPath, repoPath, fileType)

\* runAdd after idx.Load and cfg.RelativeToHome
AddLoaded(st, ix, expandedPath, rel) ==
    IF IsManaged(ix, expandedPath) THEN [st |-> st, err |-> "already managed"]
    ELSE IF ~rel.ok THEN [st |-> st, err |-> "relative path"]
    ELSE AddAs(st, ix, expandedPath, rel.rel, Join(DotmanDir, rel.rel),
               GetFileType(st.fs, expandedPath))

\* runAdd after git.EnsureRepo
AddInRepo(g, expandedPath) ==
    IF ~g.ok THEN [st |-> g.st, err |-> "git"]
    ELSE AddLoaded(g.st, Load(g.st.fs, g.st.ix), expandedPath,
                   RelativeToHome(expandedPath))

\* runAdd after cfg.EnsureDotmanDir
AddInDir(st, d, expandedPath) ==
    IF ~d.ok THEN [st |-> [st EXCEPT !.fs = d.fs], err |-> "dotman directory"]
    ELSE AddInRepo(EnsureRepo([st EXCEPT !.fs = d.fs]), expandedPath)

\* runAdd after cfg.ExpandPath
AddExpanded(st, e) ==
    IF ~e.ok THEN [st |-> st, err |-> "outside home"]
    ELSE IF ~PathExists(st.fs, e.p) THEN [st |-> st, err |-> "does not exist"]
    ELSE IF ~IsInsideHome(e.p) THEN [st |-> st, err |-> "outside home"]
    ELSE AddInDir(st, EnsureDotmanDir(st.fs), e.p)

runAdd(st, path) == AddExpanded(st, ExpandPath(path))

\* one turn of a multi-path loop: the result r of the path taken on board.
\* acc is [st, errs, seen]: the state, the results so far, and the filesystem
\* and manifest each path so far was attempted on
Attempted(r, acc) ==
    [st |-> r.st, errs |-> Append(acc.errs, r.err),
     seen |-> Append(acc.seen, [fs |-> acc.st.fs, ix |-> Load(acc.st.fs, acc.st.ix)])]

RECURSIVE AddEachUntilFailure(_, _)
\* the loop giving up at the first path that fails
AddEachUntilFailure(acc, paths) ==
    IF paths = <<>> \/ (acc.errs # <<>> /\ acc.errs[Len(acc.errs)] # "") THEN acc
    ELSE AddEachUntilFailure(Attempted(runAdd(acc.st, Head(paths)), acc), Tail(paths))

RECURSIVE AddEach(_, _)
\* the loop of runAddMultiple
AddEach(acc, paths) ==
    IF paths = <<>> THEN acc
    ELSE AddEach(Attempted(runAdd(acc.st, Head(paths)), acc), Tail(paths))

Count(errs, ok) == Cardinality({i \in DOMAIN errs : (errs[i] = "") = ok})

\* the tally returning an error as soon as one path failed
TallyAnyFailure(r) ==
    [st |-> r.st, errs |-> r.errs, seen |-> r.seen,
     successCount |-> Count(r.errs, TRUE),
     failures |-> Count(r.errs, FALSE),
     failed |-> Count(r.errs, FALSE) > 0]

\* the tally at the end of runAddMultiple / runRemoveMultiple
Tally(r) ==
    [st |-> r.st, errs |-> r.errs, seen |-> r.seen,
     successCount |-> Count(r.errs, TRUE),
     failures |-> Count(r.errs, FALSE),
     failed |-> Count(r.errs, FALSE) > 0 /\ Count(r.errs, TRUE) = 0]

runAddMultiple(st, paths) ==
    Tally(AddEach([st |-> st, errs |-> <<>>, seen |-> <<>>], paths))

(***************************************************************************)
(* remove                                                                  *)
(***************************************************************************)
\* runRemove after idx.Save: git.Add and git.Commit
RemoveSaved(s) ==
    IF ~s.ok THEN [st |-> s.st, err |-> "save"]
    ELSE IF s.st.fault = "commit" THEN [st |-> s.st, err |-> "commit"]
    ELSE [st |-> Commit(s.st), err |-> ""]

\* runRemove after fileops.RemoveSymlink
RemoveRestored(st, ix, r, expandedPath) ==
    IF ~r.ok THEN [st |-> [st EXCEPT !.fs = r.fs], err |-> "restore"]
    ELSE RemoveSaved(Save([st EXCEPT !.fs = r.fs], RemoveFile(ix, expandedPath)))

\* runRemove's call of fileops.RemoveSymlink
RemoveLinkOf(st, expandedPath, repoPath) ==
    IF st.fault = "restore" THEN RemoveSymlinkUnrestored(st.fs, expandedPath, repoPath)
    ELSE RemoveSymlink(st.fs, expandedPath, repoPath)

\* runRemove after idx.Load
RemoveLoaded(st, ix, expandedPath) ==
    IF ~IsManaged(ix, expandedPath) THEN [st |-> st, err |-> "not managed"]
    ELSE RemoveRestored(st, ix,
             RemoveLinkOf(st, expandedPath,
                          Join(DotmanDir, FindFile(ix, expandedPath).RepoPath)),
             expandedPath)

\* runRemove after cfg.ExpandPath
RemoveExpanded(st, e) ==
    IF ~e.ok THEN [st |-> st, err |-> "outside home"]
    ELSE RemoveLoaded(st, Load(st.fs, st.ix), e.p)

runRemove(st, path) == RemoveExpanded(st, ExpandPath(path))

RECURSIVE RemoveEach(_, _)
\* the loop of runRemoveMultiple
RemoveEach(acc, paths) ==
    IF paths = <<>> THEN acc
    ELSE RemoveEach(Attempted(runRemove(acc.st, Head(paths)), acc), Tail(paths))

runRemoveMultiple(st, paths) ==
    Tally(RemoveEach([st |-> st, errs |-> <<>>, seen |-> <<>>], paths))

(***************************************************************************)
(* hierarchy containment and cleanup                                       *)
(***************************************************************************)
RECURSIVE getManagedDirectories(_)
getManagedDirectories(ix) ==
    IF ix = <<>> THEN <<>>
    ELSE (IF Head(ix).Type = "directory" THEN <<Head(ix).OriginalPath>> ELSE <<>>)
         \o getManagedDirectories(Tail(ix))

\* isWithinManagedDirectory comparing the strings without the separator
isWithinByStringPrefix(filePath, managedDirs) ==
    \E i \in DOMAIN managedDirs : HasPrefix(Str(filePath), Str(managedDirs[i]))

\* isWithinManagedDirectory matching only a managed directory itself
isManagedDirectory(filePath, managedDirs) ==
    \E i \in DOMAIN managedDirs : Str(filePath) = Str(managedDirs[i])

isWithinManagedDirectory(filePath, managedDirs) ==
    \E i \in DOMAIN managedDirs :
        HasPrefix(Str(filePath), Str(managedDirs[i]) \o <<"/">>)

RECURSIVE RedundantEntries(_, _)
\* runCleanup taking covered entries of either kind for redundant
RedundantEntries(ix, managedDirs) ==
    IF ix = <<>> THEN <<>>
    ELSE (IF isWithinManagedDirectory(Head(ix).OriginalPath, managedDirs)
          THEN <<Head(ix)>> ELSE <<>>)
         \o RedundantEntries(Tail(ix), managedDirs)

RECURSIVE RedundantFiles(_, _)
\* runCleanup: the file entries of ix covered by a managed directory
RedundantFiles(ix, managedDirs) ==
    IF ix = <<>> THEN <<>>
    ELSE (IF Head(ix).Type = "file"
             /\ isWithinManagedDirectory(Head(ix).OriginalPath, managedDirs)
          THEN <<Head(ix)>> ELSE <<>>)
         \o RedundantFiles(Tail(ix), managedDirs)

RECURSIVE RemoveAllOf(_, _)
\* runCleanup: index.RemoveFile for each redundant entry in turn
RemoveAllOf(ix, files) ==
    IF files = <<>> THEN ix
    ELSE RemoveAllOf(RemoveFile(ix, Head(files).OriginalPath), Tail(files))

\* runCleanup after idx.Save
CleanupSaved(s, n) ==
    IF ~s.ok THEN [st |-> s.st, err |-> "save", n |-> n]
    ELSE [st |-> Commit(s.st), err |-> "", n |-> n]

\* runCleanup once the redundant files are known
CleanupFound(st, ix, managedDirs, redundantFiles, dryRun) ==
    IF Len(ix) = 0 \/ Len(managedDirs) = 0 \/ Len(redundantFiles) = 0
    THEN [st |-> st, err |-> "", n |-> 0]
    ELSE IF dryRun THEN [st |-> st, err |-> "", n |-> Len(redundantFiles)]
    ELSE CleanupSaved(Save(st, RemoveAllOf(ix, redundantFiles)), Len(redundantFiles))

\* runCleanup once the managed directories are known
CleanupIn(st, ix, managedDirs, dryRun) ==
    CleanupFound(st, ix, managedDirs, RedundantFiles(ix, managedDirs), dryRun)

\* runCleanup after idx.Load
CleanupLoaded(st, ix, dryRun) ==
    CleanupIn(st, ix, getManagedDirectories(ix), dryRun)

runCleanup(st, dryRun) ==
    IF ~DotmanDirExists(st.fs) THEN [st |-> st, err |-> "no dotman directory", n |-> 0]
    ELSE CleanupLoaded(st, Load(st.fs, st.ix), dryRun)

(***************************************************************************)
(* discovery (sync)                                                        *)
(***************************************************************************)
\* byte order of the characters that occur in names
Alphabet ==
    <<".", "/", "a", "b", "c", "d", "e", "f", "g", "h", "i", "j", "k", "l", "m",
      "n", "o", "p", "q", "r", "s", "t", "u", "v", "w", "x", "y", "z", "~">>

Rank(c) == CHOOSE i \in 1..Len(Alphabet) : Alphabet[i] = c

RECURSIVE StrLess(_, _)
StrLess(a, b) ==
    IF b = <<>> THEN FALSE
    ELSE IF a = <<>> THEN TRUE
    ELSE IF Head(a) = Head(b) THEN StrLess(Tail(a), Tail(b))
    ELSE Rank(Head(a)) < Rank(Head(b))

RECURSIVE PathLess(_, _)
\* p is visited before q by filepath.Walk (names sorted in each directory)
PathLess(p, q) ==
    IF q = <<>> THEN FALSE
    ELSE IF p = <<>> THEN TRUE
    ELSE IF Head(p) = Head(q) THEN PathLess(Tail(p), Tail(q))
    ELSE StrLess(Head(p), Head(q))

RECURSIVE SortPaths(_)
SortPaths(S) ==
    IF S = {} THEN <<>>
    ELSE LET m == CHOOSE x \in S : \A y \in S \ {x} : PathLess(x, y)
         IN  <<m>> \o SortPaths(S \ {m})

\* filepath.Walk below a root that is a directory at base
WalkFrom(f, repoDir, base) ==
    LET name(q) == repoDir \o SubSeq(q, Len(base) + 1, Len(q))
        pruned(q) == \E k \in Len(base)..(Len(q) - 1) :
                        /\ f[SubSeq(q, 1, k)].t = "dir"
                        /\ HasSuffix(Str(name(SubSeq(q, 1, k))), GitDirName)
    IN  SortPaths({name(q) : q \in {x \in DOMAIN f : IsPrefixPath(base, x) /\ ~pruned(x)}})

\* filepath.Walk given the Lstat of its root
WalkRoot(f, repoDir, l) ==
    IF TypeAt(f, l) = "dir" THEN WalkFrom(f, repoDir, l.p) ELSE <<repoDir>>

\* filepath.Walk(repoDir) with the callback's SkipDir for directories whose
\* path ends in ".git": the paths handed to the callback, in order
WalkPaths(f, repoDir) == WalkRoot(f, repoDir, Lstat(f, repoDir))

\* the callback of findUnmanagedFiles for one path: the relative path it
\* appends, if any
Visit(f, ix, path, relPath, originalPath, covered) ==
    IF \/ Contains(Str(path), GitDirName)
       \/ HasSuffix(Str(path), IndexFileName)
       \/ TypeAt(f, Lstat(f, path)) = "dir"
       \/ IsManaged(ix, originalPath)
       \/ (covered /\ isWithinManagedDirectory(originalPath, getManagedDirectories(ix)))
    THEN <<>>
    ELSE <<relPath>>

\* the callback once the path relative to the repo is known
VisitRel(f, ix, path, relPath, covered) ==
    Visit(f, ix, path, relPath, Join(HomeDir, relPath), covered)

RECURSIVE Unmanaged(_, _, _, _, _)
\* the callback of findUnmanagedFiles over the walked paths; covered says
\* whether the managed directories are consulted
Unmanaged(f, ix, repoDir, paths, covered) ==
    IF paths = <<>> THEN <<>>
    ELSE VisitRel(f, ix, Head(paths), RelStr(repoDir, Head(paths)), covered)
         \o Unmanaged(f, ix, repoDir, Tail(paths), covered)

\* findUnmanagedFiles of the sync command
findUnmanagedFiles(f, repoDir, ix) ==
    Unmanaged(f, ix, repoDir, WalkPaths(f, repoDir), TRUE)

\* findUnmanagedFiles of status --sync
findUnmanagedFilesStatus(f, repoDir, ix) ==
    Unmanaged(f, ix, repoDir, WalkPaths(f, repoDir), FALSE)

\* addUnmanagedFile taking the place in the store for the original path
addUnmanagedFileAtStore(f, ix, repoPath) ==
    AddFile(ix, Join(DotmanDir, repoPath), repoPath,
            GetFileType(f, Join(DotmanDir, repoPath)))

addUnmanagedFile(f, ix, repoPath) ==
    AddFile(ix, Join(HomeDir, repoPath), repoPath,
            GetFileType(f, Join(DotmanDir, repoPath)))

RECURSIVE AddUnmanaged(_, _, _)
AddUnmanaged(f, ix, unmanaged) ==
    IF unmanaged = <<>> THEN ix
    ELSE AddUnmanaged(f, addUnmanagedFile(f, ix, Head(unmanaged)), Tail(unmanaged))

\* sync after idx.Save
SyncSaved(s, unmanaged) ==
    IF ~s.ok THEN [st |-> s.st, err |-> "save", found |-> unmanaged, added |-> 0]
    ELSE [st |-> Commit(s.st), err |-> "", found |-> unmanaged,
          added |-> Len(unmanaged)]

\* the common body registering what it found also in a preview
SyncFoundInPreview(st, ix, unmanaged, dryRun, autoAdd, confirm) ==
    IF Len(unmanaged) = 0 \/ (~autoAdd /\ ~confirm)
    THEN [st |-> st, err |-> "", found |-> unmanaged, added |-> 0]
    ELSE SyncSaved(Save(st, AddUnmanaged(st.fs, ix, unmanaged)), unmanaged)

\* the common body of runSyncDiscover and runSync, given the files found;
\* confirm is the answer to the prompt (not asked when autoAdd)
SyncFound(st, ix, unmanaged, dryRun, autoAdd, confirm) ==
    IF Len(unmanaged) = 0 \/ dryRun \/ (~autoAdd /\ ~confirm)
    THEN [st |-> st, err |-> "", found |-> unmanaged, added |-> 0]
    ELSE SyncSaved(Save(st, AddUnmanaged(st.fs, ix, unmanaged)), unmanaged)

\* runSyncDiscover after idx.Load
SyncDiscoverLoaded(st, ix, dryRun, autoAdd, confirm) ==
    SyncFound(st, ix, findUnmanagedFiles(st.fs, DotmanDir, ix),
              dryRun, autoAdd, confirm)

runSyncDiscover(st, dryRun, autoAdd, confirm) ==
    IF ~DotmanDirExists(st.fs)
    THEN [st |-> st, err |-> "no dotman directory", found |-> <<>>, added |-> 0]
    ELSE SyncDiscoverLoaded(st, Load(st.fs, st.ix), dryRun, autoAdd, confirm)

\* runSync after idx.Load
SyncLoaded(st, ix, dryRun, autoAdd, confirm) ==
    SyncFound(st, ix, findUnmanagedFilesStatus(st.fs, DotmanDir, ix),
              dryRun, autoAdd, confirm)

runSync(st, dryRun, autoAdd, confirm) ==
    IF ~DotmanDirExists(st.fs)
    THEN [st |-> st, err |-> "no dotman directory", found |-> <<>>, added |-> 0]
    ELSE SyncLoaded(st, Load(st.fs, st.ix), dryRun, autoAdd, confirm)

(***************************************************************************)
(* deploy                                                                  *)
(***************************************************************************)
RECURSIVE CleanRelFrom(_, _)
\* filepath.Clean of a relative path: leading ".." segments are kept
CleanRelFrom(acc, segs) ==
    IF segs = <<>> THEN acc
    ELSE LET s == Head(segs)
         IN  IF s = <<>> \/ s = <<".">> THEN CleanRelFrom(acc, Tail(segs))
             ELSE IF s = <<".", ".">> /\ acc # <<>> /\ acc[Len(acc)] # <<".", ".">>
                  THEN CleanRelFrom(SubSeq(acc, 1, Len(acc) - 1), Tail(segs))
                  ELSE CleanRelFrom(Append(acc, s), Tail(segs))

\* filepath.Clean of a string
Clean(s) ==
    IF s # <<>> /\ Head(s) = "/" THEN Str(CleanFrom(<<>>, Split(s)))
    ELSE LET r == JoinSlash(CleanRelFrom(<<>>, Split(s)))
         IN  IF r = <<>> THEN <<".">> ELSE r

Upper ==
    <<"A", "B", "C", "D", "E", "F", "G", "H", "I", "J", "K", "L", "M",
      "N", "O", "P", "Q", "R", "S", "T", "U", "V", "W", "X", "Y", "Z">>

Lower ==
    <<"a", "b", "c", "d", "e", "f", "g", "h", "i", "j", "k", "l", "m",
      "n", "o", "p", "q", "r", "s", "t", "u", "v", "w", "x", "y", "z">>

\* strings.ToLower
ToLower(s) ==
    [i \in 1..Len(s) |->
        IF \E k \in 1..Len(Upper) : Upper[k] = s[i]
        THEN Lower[CHOOSE k \in 1..Len(Upper) : Upper[k] = s[i]]
        ELSE s[i]]

ShouldIgnoreRepoPath(repoRelPath) ==
    LET rel == Clean(repoRelPath)
    IN  \/ rel = DotmanDirName
        \/ rel = DotmanDirName \o <<"/">>
        \/ ToLower(rel) = <<"r", "e", "a", "d", "m", "e", ".", "m", "d">>
        \/ HasPrefix(rel, DotmanDirName \o <<"/">>)

\* runDeploy's loop after fileops.CreateSymlink
DeployLinked(l) ==
    [fs |-> l.fs, out |-> IF l.ok THEN "deployed" ELSE "error"]

\* the loop body replacing whatever is at the original location
DeployOverwriting(f, file, repoPath) ==
    IF ShouldIgnoreRepoPath(file.RepoPath) THEN [fs |-> f, out |-> "metadata"]
    ELSE IF ~PathExists(f, repoPath) THEN [fs |-> f, out |-> "repo file missing"]
    ELSE DeployLinked(CreateSymlink(RemoveAll(f, file.OriginalPath),
                                    file.OriginalPath, repoPath))

\* one iteration of runDeploy's loop, repoPath known
DeployAt(f, file, repoPath) ==
    IF ShouldIgnoreRepoPath(file.RepoPath) THEN [fs |-> f, out |-> "metadata"]
    ELSE IF ~PathExists(f, repoPath) THEN [fs |-> f, out |-> "repo file missing"]
    ELSE IF PathExists(f, file.OriginalPath)
         THEN IF IsSymlink(f, file.OriginalPath)
              THEN [fs |-> f, out |-> "symlink exists"]
              ELSE [fs |-> f, out |-> "not a symlink"]
    ELSE DeployLinked(CreateSymlink(f, file.OriginalPath, repoPath))

\* one iteration of runDeploy's loop
DeployOne(f, file) == DeployAt(f, file, Join(DotmanDir, file.RepoPath))

\* one turn of the loop of deploy or fix: the result r of the entry taken on
\* board.  acc is [fs, out, seen]: the filesystem, the outcomes so far, and the
\* filesystem each entry so far was handled on
Handled(r, acc) ==
    [fs |-> r.fs, out |-> Append(acc.out, r.out), seen |-> Append(acc.seen, acc.fs)]

RECURSIVE DeployEach(_, _)
\* the loop of runDeploy
DeployEach(acc, files) ==
    IF files = <<>> THEN acc
    ELSE DeployEach(Handled(DeployOne(acc.fs, Head(files)), acc), Tail(files))

\* the end of runDeploy and of runFix
LoopDone(st, r) ==
    [st |-> [st EXCEPT !.fs = r.fs], err |-> "", out |-> r.out, seen |-> r.seen]

runDeploy(st) ==
    IF ~DotmanDirExists(st.fs)
    THEN [st |-> st, err |-> "no dotman directory", out |-> <<>>, seen |-> <<>>]
    ELSE LoopDone(st, DeployEach([fs |-> st.fs, out |-> <<>>, seen |-> <<>>],
                                 Load(st.fs, st.ix)))

(***************************************************************************)
(* fix                                                                     *)
(***************************************************************************)
\* os.Readlink of the symlink an Lstat found
Readlink(f, l) == f[l.p].to

\* runFix's loop after fileops.CreateSymlink
FixLinked(l) ==
    [fs |-> l.fs, out |-> IF l.ok THEN "fixed" ELSE "failed to fix"]

\* the loop body with the comparison of the link's target inverted
FixOriginalInverted(f, file, repoPath, dryRun, exists, l) ==
    IF exists /\ TypeAt(f, l) = "link"
    THEN IF Readlink(f, l) # repoPath THEN [fs |-> f, out |-> "ok"]
         ELSE [fs |-> f, out |-> "wrong target"]
    ELSE IF exists THEN [fs |-> f, out |-> "not a symlink"]
    ELSE IF dryRun THEN [fs |-> f, out |-> "would fix"]
    ELSE FixLinked(CreateSymlink(f, file.OriginalPath, repoPath))

\* the loop body putting the symlink in the place of whatever is there
FixOriginalForcing(f, file, repoPath, dryRun, exists, l) ==
    IF exists /\ TypeAt(f, l) = "link" /\ Readlink(f, l) = repoPath
    THEN [fs |-> f, out |-> "ok"]
    ELSE IF dryRun THEN [fs |-> f, out |-> "would fix"]
    ELSE FixLinked(CreateSymlink(RemoveAll(f, file.OriginalPath),
                                 file.OriginalPath, repoPath))

\* runFix's loop, the state of the original location known: exists is
\* fileops.PathExists of it, l its Lstat
FixOriginal(f, file, repoPath, dryRun, exists, l) ==
    IF exists /\ TypeAt(f, l) = "link"
    THEN IF Readlink(f, l) = repoPath THEN [fs |-> f, out |-> "ok"]
         ELSE [fs |-> f, out |-> "wrong target"]
    ELSE IF exists THEN [fs |-> f, out |-> "not a symlink"]
    ELSE IF dryRun THEN [fs |-> f, out |-> "would fix"]
    ELSE FixLinked(CreateSymlink(IF exists THEN Remove(f, file.OriginalPath).fs ELSE f,
                                 file.OriginalPath, repoPath))

\* one iteration of runFix's loop, repoPath known
FixAt(f, file, repoPath, dryRun) ==
    IF ~PathExists(f, repoPath) THEN [fs |-> f, out |-> "repo file missing"]
    ELSE FixOriginal(f, file, repoPath, dryRun,
                     PathExists(f, file.OriginalPath), Lstat(f, file.OriginalPath))

\* one iteration of runFix's loop
FixOne(f, file, dryRun) == FixAt(f, file, Join(DotmanDir, file.RepoPath), dryRun)

RECURSIVE FixEach(_, _, _)
\* the loop of runFix
FixEach(acc, files, dryRun) ==
    IF files = <<>> THEN acc
    ELSE FixEach(Handled(FixOne(acc.fs, Head(files), dryRun), acc),
                 Tail(files), dryRun)

\* the counters runFix keeps
FixedCount(out) == Cardinality({i \in DOMAIN out : out[i] \in {"fixed", "would fix"}})

ProblemCount(out) ==
    Cardinality({i \in DOMAIN out :
        out[i] \in {"repo file missing", "wrong target", "not a symlink",
                    "failed to fix"}})

runFix(st, dryRun) ==
    IF ~DotmanDirExists(st.fs)
    THEN [st |-> st, err |-> "no dotman directory", out |-> <<>>, seen |-> <<>>]
    ELSE LoopDone(st, FixEach([fs |-> st.fs, out |-> <<>>, seen |-> <<>>],
                              Load(st.fs, st.ix), dryRun))

(***************************************************************************)
(* status, with its cleanup, sync and fix passes.  A pass is recorded as    *)
(* [ran, st, err, n, found, out, seen]: whether it ran, the state it left,  *)
(* and what it returned, counted, found and went through.                   *)
(***************************************************************************)
NoPass(st) ==
    [ran |-> FALSE, st |-> st, err |-> "", n |-> 0, found |-> <<>>, out |-> <<>>,
     seen |-> <<>>]

CleanupPass(r) == [NoPass(r.st) EXCEPT !.ran = TRUE, !.err = r.err, !.n = r.n]

SyncPass(r) ==
    [NoPass(r.st) EXCEPT !.ran = TRUE, !.err = r.err, !.n = r.added, !.found = r.found]

FixPass(r) ==
    [NoPass(r.st) EXCEPT !.ran = TRUE, !.err = r.err, !.out = r.out, !.seen = r.seen]

\* runStatus: the line printed for an entry, broken when the original is
\* missing or no symlink
StatusLine(f, file) ==
    [path |-> file.OriginalPath, type |-> file.Type,
     broken |-> (PathExists(f, file.OriginalPath) => ~IsSymlink(f, file.OriginalPath))]

RECURSIVE StatusLines(_, _, _)
\* runStatus: the lines of its listing, in the order of the index
StatusLines(f, ix, managedDirs) ==
    IF ix = <<>> THEN <<>>
    ELSE (IF Head(ix).Type = "file"
             /\ isWithinManagedDirectory(Head(ix).OriginalPath, managedDirs)
          THEN <<>> ELSE <<StatusLine(f, Head(ix))>>)
         \o StatusLines(f, Tail(ix), managedDirs)

\* runStatus: the entries its listing counts as broken
BrokenCount(lines) == Cardinality({i \in DOMAIN lines : lines[i].broken})

\* the end of runStatus: c, s and x are its cleanup, sync and fix passes
StatusFixed(c, s, x, lines) ==
    [st |-> x.st, cleanup |-> c, sync |-> s, fix |-> x, lines |-> lines,
     broken |-> BrokenCount(lines)]

\* runStatus after the listing
StatusListed(c, s, lines, fix, dryRun) ==
    StatusFixed(c, s,
                IF fix /\ BrokenCount(lines) > 0 /\ ~dryRun
                THEN FixPass(runFix(s.st, dryRun)) ELSE NoPass(s.st),
                lines)

\* runStatus after idx.Load
StatusLoaded(c, s, ix, fix, dryRun) ==
    IF Len(ix) = 0 THEN StatusFixed(c, s, NoPass(s.st), <<>>)
    ELSE StatusListed(c, s, StatusLines(s.st.fs, ix, getManagedDirectories(ix)),
                      fix, dryRun)

\* runStatus after the sync pass
StatusSynced(c, s, fix, dryRun) ==
    StatusLoaded(c, s, Load(s.st.fs, s.st.ix), fix, dryRun)

\* runStatus after the cleanup pass
StatusCleaned(c, sync, fix, dryRun) ==
    StatusSynced(c,
                 IF sync THEN SyncPass(runSync(c.st, dryRun, TRUE, FALSE))
                 ELSE NoPass(c.st),
                 fix, dryRun)

runStatus(st, sync, fix, cleanup, dryRun) ==
    IF ~DotmanDirExists(st.fs)
    THEN StatusFixed(NoPass(st), NoPass(st), NoPass(st), <<>>)
    ELSE StatusCleaned(IF cleanup THEN CleanupPass(runCleanup(st, dryRun))
                       ELSE NoPass(st),
                       sync, fix, dryRun)

(***************************************************************************)
(* init and clone                                                          *)
(***************************************************************************)
\* runInit after the initial idx.Save
InitSaved(s) ==
    IF ~s.ok THEN [st |-> s.st, err |-> "save"]
    ELSE [st |-> Commit(s.st), err |-> ""]

\* runInit leaving out the empty index
InitInRepoUnsaved(g) ==
    IF ~g.ok THEN [st |-> g.st, err |-> "git"]
    ELSE [st |-> Commit(g.st), err |-> ""]

\* runInit after git.EnsureRepo in a new directory
InitInRepo(g) ==
    IF ~g.ok THEN [st |-> g.st, err |-> "git"]
    ELSE InitSaved(Save(g.st, <<>>))

\* runInit after cfg.EnsureDotmanDir
InitInDir(st, d) ==
    IF ~d.ok THEN [st |-> [st EXCEPT !.fs = d.fs], err |-> "dotman directory"]
    ELSE InitInRepo(EnsureRepo([st EXCEPT !.fs = d.fs]))

\* runInit in a directory that holds an index but no git repository
InitAdopted(e) == [st |-> e.st, err |-> IF e.ok THEN "" ELSE "git"]

runInit(st) ==
    IF DotmanDirExists(st.fs)
    THEN IF IsGitRepo(st.fs) THEN [st |-> st, err |-> ""]
         ELSE IF IndexFileExists(st.fs) THEN InitAdopted(EnsureRepo(st))
         ELSE [st |-> st, err |-> "not a dotman repo"]
    ELSE InitInDir(st, EnsureDotmanDir(st.fs))

\* the remote's tree placed under the directory at base
Checkout(f, base, remote) ==
    [q \in DOMAIN f \cup {base \o r : r \in DOMAIN remote.tree} |->
        IF q \in DOMAIN f THEN f[q]
        ELSE remote.tree[SubSeq(q, Len(base) + 1, Len(q))]]

\* git clone once the target directory is made
CloneInto(f, d, remote) ==
    IF ~d.ok THEN [ok |-> FALSE, fs |-> f]
    ELSE [ok |-> TRUE, fs |-> Checkout(d.fs, Stat(d.fs, DotmanDir).p, remote)]

\* git clone url DotmanDir: the remote's tree appears under DotmanDir.  A remote
\* is [tree, ix, valid]: its working tree by store-relative path, the content
\* of its index.json (when the tree has one), and whether that content parses.
GitClone(f, remote) == CloneInto(f, MkdirAll(f, DotmanDir), remote)

\* runClone that leaves a clone it turns down where it is
ClonedKeepingStore(st, c, remote) ==
    IF ~c.ok THEN [st |-> st, err |-> "clone"]
    ELSE IF ~IndexFileExists(c.fs)
         THEN [st |-> [st EXCEPT !.fs = c.fs, !.ix = <<>>], err |-> "no index"]
    ELSE IF ~remote.valid
         THEN [st |-> [st EXCEPT !.fs = c.fs, !.ix = <<>>], err |-> "invalid index"]
    ELSE [st |-> [st EXCEPT !.fs = c.fs, !.ix = remote.ix], err |-> ""]

\* runClone after git clone; remote.valid says whether the index.json that
\* came with the clone parses
Cloned(st, c, remote) ==
    IF ~c.ok THEN [st |-> st, err |-> "clone"]
    ELSE IF ~IndexFileExists(c.fs)
         THEN [st |-> [st EXCEPT !.fs = RemoveAll(c.fs, DotmanDir), !.ix = <<>>],
               err |-> "no index"]
    ELSE IF ~remote.valid
         THEN [st |-> [st EXCEPT !.fs = RemoveAll(c.fs, DotmanDir), !.ix = <<>>],
               err |-> "invalid index"]
    ELSE [st |-> [st EXCEPT !.fs = c.fs, !.ix = remote.ix], err |-> ""]

runClone(st, remote) ==
    IF DotmanDirExists(st.fs) THEN [st |-> st, err |-> "already exists"]
    ELSE Cloned(st, GitClone(st.fs, remote), remote)

(***************************************************************************)
(* The machine the commands run on, and the inputs they are given.         *)
(***************************************************************************)
Seg(c) == <<c>>

HomeA == Join(HomeDir, Seg("a"))
HomeD == Join(HomeDir, Seg("d"))
HomeDF == Join(HomeD, Seg("f"))
HomeN == Join(HomeDir, Seg("n"))
OutX == << Seg("e"), Seg("x") >>

\* the paths typed on the command line
RawA == <<"~", "/", "a">>
RawD == <<"/", "h", "/", "d">>
RawDF == <<"~", "/", "d", "/", "f">>
RawN == <<"n">>
RawOut == <<"/", "e", "/", "x">>
RawDotDot == <<"~", "/", ".", ".", "/", "e", "/", "x">>

\* a name under home that begins with two dots
RawDots == <<"~", "/", ".", ".", "a">>

RawPaths == {RawA, RawD, RawDF, RawN, RawOut, RawDotDot, RawDots}

\* the paths given together with others
MultiPaths == {RawA, RawD, RawOut}

\* the argument lists of add and remove: one path, or several different ones
ArgLists ==
    {<<p>> : p \in RawPaths}
    \cup UNION {{l \in [1..n -> MultiPaths] : \A i, j \in 1..n : l[i] = l[j] => i = j} :
                n \in 2..MaxArgs}

\* outside the home directory: a file /e/x
BaseFs ==
    (<<>> :> DirNode) @@ (HomeDir :> DirNode)
    @@ (<< Seg("e") >> :> DirNode) @@ (OutX :> FileNode("X"))

\* what the home directory may hold at ~/a before dotman is used: a regular
\* file, nothing, a symlink whose target does not exist, a symlink to a file
HomeAWorlds ==
    { HomeA :> FileNode("A"),
      <<>> :> DirNode,
      HomeA :> LinkNode(HomeN),
      HomeA :> LinkNode(OutX) }

\* and at ~/d: a directory holding a file, or nothing
HomeDWorlds ==
    { (HomeD :> DirNode) @@ (HomeDF :> FileNode("F")),
      <<>> :> DirNode }

InitWorlds == {BaseFs @@ a @@ d : a \in HomeAWorlds, d \in HomeDWorlds}

\* the name of a dotfile that holds ".git"
GitconfigName == <<".", "g", "i", "t", "c", "o", "n", "f", "i", "g">>

\* a dotfiles repository on a remote: a file, a directory holding a file, two
\* files the manifest does not list (n and .gitconfig), and a manifest that
\* lists the file inside the directory, the directory and the file
RemoteFull ==
    [tree |-> (<<GitDirName>> :> DirNode) @@ (<<IndexFileName>> :> FileNode("index"))
              @@ (<<Seg("a")>> :> FileNode("A")) @@ (<<Seg("d")>> :> DirNode)
              @@ (<<Seg("d"), Seg("f")>> :> FileNode("F"))
              @@ (<<Seg("n")>> :> FileNode("N"))
              @@ (<<GitconfigName>> :> FileNode("G")),
     ix |-> << ManagedFile(HomeDF, <<"d", "/", "f">>, "file"),
               ManagedFile(HomeD, <<"d">>, "directory"),
               ManagedFile(HomeA, <<"a">>, "file") >>,
     valid |-> TRUE]

\* a remote that is no dotman repository
RemoteBare ==
    [tree |-> (<<GitDirName>> :> DirNode) @@ (<<Seg("a")>> :> FileNode("A")),
     ix |-> <<>>,
     valid |-> TRUE]

\* a remote whose index.json is no JSON
RemoteBroken ==
    [tree |-> (<<GitDirName>> :> DirNode) @@ (<<IndexFileName>> :> FileNode("junk"))
              @@ (<<Seg("a")>> :> FileNode("A")),
     ix |-> <<>>,
     valid |-> FALSE]

\* a remote whose manifest lists a location outside the home directory, /e/y
OutY == << Seg("e"), Seg("y") >>

RemoteAway ==
    [tree |-> (<<GitDirName>> :> DirNode) @@ (<<IndexFileName>> :> FileNode("index"))
              @@ (<<Seg("y")>> :> FileNode("Y")),
     ix |-> << ManagedFile(OutY, <<"y">>, "file") >>,
     valid |-> TRUE]

\* a remote whose manifest lists a directory, a directory inside it, and a
\* file next to the directory whose name begins with the directory's name
RemoteNested ==
    [tree |-> (<<GitDirName>> :> DirNode) @@ (<<IndexFileName>> :> FileNode("index"))
              @@ (<<Seg("d")>> :> DirNode) @@ (<<Seg("d"), Seg("s")>> :> DirNode)
              @@ (<<Seg("d"), Seg("s"), Seg("f")>> :> FileNode("F"))
              @@ (<< <<"d", "z">> >> :> FileNode("Z")),
     ix |-> << ManagedFile(HomeD, <<"d">>, "directory"),
               ManagedFile(Join(HomeD, <<"s">>), <<"d", "/", "s">>, "directory"),
               ManagedFile(Join(HomeDir, <<"d", "z">>), <<"d", "z">>, "file") >>,
     valid |-> TRUE]

Remotes == {RemoteFull, RemoteBare, RemoteBroken, RemoteAway, RemoteNested}

\* the manifest as the next command will load it
Manifest == Load(fs, idx)

\* What is recorded of a command that ran: its name, arguments and flags, the
\* state st it left, the outcome of each path or entry (out), whether it
\* returned an error (failed), the successes and failures it counted, what
\* discovery found, the states its loop passed through (seen), and the passes
\* of status.
Ran(op, args, dry, st, out, failed) ==
    [op |-> op, args |-> args, dry |-> dry, st |-> st, out |-> out, failed |-> failed,
     n |-> 0, failures |-> 0, found |-> <<>>, seen |-> <<>>,
     cleanup |-> NoPass(st), sync |-> NoPass(st), fix |-> NoPass(st)]

RanInit(r) == Ran("init", <<>>, FALSE, r.st, <<r.err>>, r.err # "")

\* the argument of clone is the remote
RanClone(remote, r) == Ran("clone", <<remote>>, FALSE, r.st, <<r.err>>, r.err # "")

RanMultiple(op, paths, dryRun, r) ==
    [Ran(op, paths, dryRun, r.st, r.errs, r.failed)
        EXCEPT !.n = r.successCount, !.failures = r.failures, !.seen = r.seen]

RanDeploy(dryRun, r) ==
    [Ran("deploy", <<>>, dryRun, r.st, r.out, r.err # "")
        EXCEPT !.seen = [i \in DOMAIN r.seen |->
                            [fs |-> r.seen[i], ix |-> Load(r.st.fs, r.st.ix)]]]

RanSync(dryRun, r) ==
    [Ran("sync", <<>>, dryRun, r.st, <<r.err>>, r.err # "")
        EXCEPT !.n = r.added, !.found = r.found]

RanStatus(dryRun, r) ==
    [Ran("status", <<>>, dryRun, r.st, r.lines, FALSE)
        EXCEPT !.n = r.broken, !.cleanup = r.cleanup, !.sync = r.sync, !.fix = r.fix]

NoCommand ==
    [op |-> "none", args |-> <<>>, dry |-> FALSE, fault |-> "none",
     preFs |-> BaseFs, preIx |-> <<>>,
     out |-> <<>>, failed |-> FALSE, n |-> 0, failures |-> 0, found |-> <<>>,
     seen |-> <<>>, commits |-> 0, changed |-> TRUE,
     cleanup |-> NoPass(<<>>), sync |-> NoPass(<<>>), fix |-> NoPass(<<>>)]

\* a store directory made by hand, without git: empty, or holding an index.json
\* that lists ~/n and the stored copy of it
HandMadeStores ==
    { [fs |-> BaseFs @@ (DotmanDir :> DirNode), ix |-> <<>>],
      [fs |-> BaseFs @@ (DotmanDir :> DirNode)
                     @@ (IndexFile :> FileNode("index"))
                     @@ (Join(DotmanDir, <<"n">>) :> FileNode("N")),
       ix |-> << ManagedFile(HomeN, <<"n">>, "file") >>] }

Init ==
    /\ \/ fs \in InitWorlds /\ idx = <<>>
       \/ \E w \in HandMadeStores : fs = w.fs /\ idx = w.ix
    /\ last = NoCommand
    /\ prev = NoCommand
    /\ steps = 0

St == [fs |-> fs, ix |-> idx, commits |-> 0, fault |-> "none"]

\* the kinds of call the environment may fail during an add: the rename into
\* the store, the making of the symlink, the write of index.json, the git
\* commit; and during a remove: the rename back out of the store, the write,
\* the commit
AddFaults == {"move", "symlink", "save", "commit"}
RemoveFaults == {"restore", "save", "commit"}

\* the state of a command the environment fails a kind of call of
StUnder(fault) == [St EXCEPT !.fault = fault]

\* A command has run to completion.  last describes it; prev is the command
\* before it when that was a successful add of one path.  A command that changed
\* nothing is followed by no other: the next command would start from the
\* filesystem and manifest its predecessor started from.
Done(c) ==
    /\ steps < MaxSteps
    /\ last.changed
    /\ fs' = c.st.fs
    /\ idx' = Load(c.st.fs, c.st.ix)
    /\ last' = [op |-> c.op, args |-> c.args, dry |-> c.dry, fault |-> c.st.fault,
                preFs |-> fs,
                preIx |-> Manifest, out |-> c.out, failed |-> c.failed,
                n |-> c.n, failures |-> c.failures, found |-> c.found,
                seen |-> c.seen, commits |-> c.st.commits,
                changed |-> (c.st.fs # fs \/ Load(c.st.fs, c.st.ix) # Manifest),
                cleanup |-> c.cleanup, sync |-> c.sync, fix |-> c.fix]
    /\ prev' = IF last.op = "add" /\ Len(last.args) = 1 /\ last.out = <<"">>
               THEN last ELSE NoCommand
    /\ steps' = steps + 1

InitCmd == Done(RanInit(runInit(St)))

CloneCmd == \E remote \in Remotes : Done(RanClone(remote, runClone(St, remote)))

\* add with or without --dry-run, a flag addCmd declares and does not read
\* (given here with one path only)
AddCmd ==
    \E paths \in ArgLists, dryRun \in BOOLEAN :
        /\ dryRun => Len(paths) = 1
        /\ Done(RanMultiple("add", paths, dryRun, runAddMultiple(St, paths)))

RemoveCmd ==
    \E paths \in ArgLists :
        Done(RanMultiple("remove", paths, FALSE, runRemoveMultiple(St, paths)))

\* deploy with or without --dry-run, a flag deployCmd declares and does not read
DeployCmd == \E dryRun \in BOOLEAN : Done(RanDeploy(dryRun, runDeploy(St)))

\* status with any of --sync, --fix, --cleanup and --dry-run
StatusCmd ==
    \E sync \in BOOLEAN, fix \in BOOLEAN, cleanup \in BOOLEAN, dryRun \in BOOLEAN :
        Done(RanStatus(dryRun, runStatus(St, sync, fix, cleanup, dryRun)))

\* the sync command: discovery, asking before it adds; confirm is the answer
SyncCmd ==
    \E dryRun \in BOOLEAN, confirm \in BOOLEAN :
        Done(RanSync(dryRun, runSyncDiscover(St, dryRun, FALSE, confirm)))

Next ==
    \/ InitCmd
    \/ CloneCmd
    \/ AddCmd
    \/ RemoveCmd
    \/ DeployCmd
    \/ StatusCmd
    \/ SyncCmd

Spec == Init /\ [][Next]_vars

(***************************************************************************)
(* The machine of init, add and remove in an environment that may fail a   *)
(* call, started without a store, with paths inside the store among the    *)
(* paths typed.                                                            *)
(***************************************************************************)
RawStore == <<"~", "/">> \o DotmanDirName
RawIndex == RawStore \o <<"/">> \o IndexFileName
RawStoreA == RawStore \o <<"/", "a">>

StorePaths == {RawStore, RawIndex, RawStoreA}

PathsUnder == {RawA, RawD, RawDF} \cup StorePaths

InitUnder ==
    /\ fs \in InitWorlds
    /\ idx = <<>>
    /\ last = NoCommand
    /\ prev = NoCommand
    /\ steps = 0

AddUnder ==
    \E p \in PathsUnder, fault \in AddFaults \cup {"none"} :
        Done(RanMultiple("add", <<p>>, FALSE, runAddMultiple(StUnder(fault), <<p>>)))

RemoveUnder ==
    \E p \in PathsUnder, fault \in RemoveFaults \cup {"none"} :
        Done(RanMultiple("remove", <<p>>, FALSE, runRemoveMultiple(StUnder(fault), <<p>>)))

NextUnder ==
    \/ InitCmd
    \/ AddUnder
    \/ RemoveUnder

SpecUnder == InitUnder /\ [][NextUnder]_vars

(***************************************************************************)
(* Properties.  last.seen[i] is the filesystem and manifest the i-th path   *)
(* or entry of the last command was handled on, After(i) what it left.      *)
(***************************************************************************)
After(i) ==
    IF i < Len(last.seen) THEN last.seen[i + 1] ELSE [fs |-> fs, ix |-> Manifest]

\* what is at p in f, p itself not followed: the node and all below it, by
\* their paths relative to p; nothing when p does not exist
TreeAt(f, p) ==
    LET l == Lstat(f, p)
    IN  IF ~l.ok THEN <<>>
        ELSE [r \in {SubSeq(q, Len(l.p) + 1, Len(q)) :
                        q \in {x \in DOMAIN f : IsPrefixPath(l.p, x)}} |-> f[l.p \o r]]

\* the absolute path a path typed on the command line stands for
Typed(raw) == ExpandPath(raw).p

\* the place in the store of a path under the home directory
Stored(p) == DotmanDir \o SubSeq(p, Len(HomeDir) + 1, Len(p))

\* the entries of a manifest with this original path
EntriesOf(ix, p) == {i \in DOMAIN ix : ix[i].OriginalPath = p}

\* C1: add and remove of a path outside the home directory fail with the
\* outside-home error and leave the filesystem (home and store) and the
\* manifest exactly as they were before the path was attempted.
C1_OutsideHomeRejected ==
    last.op \in {"add", "remove"} =>
        \A i \in DOMAIN last.args :
            ~IsPrefixPath(HomeDir, Typed(last.args[i])) =>
                /\ last.out[i] = "outside home"
                /\ After(i) = last.seen[i]
                /\ Len(last.args) = 1 => last.failed

\* a remove of ~/../e/x was rejected while the manifest held entries
C1_Witness ==
    /\ last.op = "remove"
    /\ last.args = <<RawDotDot>>
    /\ last.out = <<"outside home">>
    /\ Len(Manifest) > 0

\* C2: after a successful add of an existing, unmanaged path p inside home the
\* manifest has exactly one entry for p, of kind file for a regular file and
\* directory for a directory; p is a symlink to the stored copy at
\* store/<p relative to home>; and the stored copy is what was at p.
C2_AddPostState ==
    last.op = "add" =>
        \A i \in DOMAIN last.args :
            last.out[i] = "" =>
                /\ Cardinality(EntriesOf(After(i).ix, Typed(last.args[i]))) = 1
                /\ \A k \in EntriesOf(After(i).ix, Typed(last.args[i])) :
                     /\ TypeAt(last.seen[i].fs, Lstat(last.seen[i].fs, Typed(last.args[i]))) = "file"
                            => After(i).ix[k].Type = "file"
                     /\ TypeAt(last.seen[i].fs, Lstat(last.seen[i].fs, Typed(last.args[i]))) = "dir"
                            => After(i).ix[k].Type = "directory"
                /\ IsSymlink(After(i).fs, Typed(last.args[i]))
                /\ Readlink(After(i).fs, Lstat(After(i).fs, Typed(last.args[i])))
                       = Stored(Typed(last.args[i]))
                /\ TreeAt(After(i).fs, Stored(Typed(last.args[i])))
                       = TreeAt(last.seen[i].fs, Typed(last.args[i]))
                /\ TreeAt(last.seen[i].fs, Typed(last.args[i])) # <<>>

\* the directory ~/d was added
C2_Witness ==
    /\ last.op = "add"
    /\ last.args = <<RawD>>
    /\ last.out = <<"">>
    /\ HomeDF \in DOMAIN last.preFs
    /\ IsSymlink(fs, HomeD)

C4_OriginalPathUnique ==
    \A i, j \in DOMAIN Manifest :
        Manifest[i].OriginalPath = Manifest[j].OriginalPath => i = j

\* the sync pass of status has added to a manifest that held entries
C4_Witness ==
    /\ last.sync.ran
    /\ last.sync.n > 0
    /\ Len(last.preIx) > 0
    /\ Len(Manifest) = Len(last.preIx) + last.sync.n

\* p lies strictly below the directory d
StrictlyBelow(p, d) == p # d /\ IsPrefixPath(d, p)

\* the manifest a pass of status left
ManifestOf(pass) == Load(pass.st.fs, pass.st.ix)

\* the entries of kind file of a manifest that lie below one of its entries of
\* kind directory
Covered(ix) ==
    {i \in DOMAIN ix :
        /\ ix[i].Type = "file"
        /\ \E j \in DOMAIN ix :
               /\ ix[j].Type = "directory"
               /\ StrictlyBelow(ix[i].OriginalPath, ix[j].OriginalPath)}

\* C5: after a cleanup that is no preview and returns no error, the manifest
\* holds no entry of kind file whose original path lies strictly below the
\* original path of an entry of kind directory.
C5_CleanupLeavesNoCoveredFile ==
    (last.cleanup.ran /\ ~last.dry /\ last.cleanup.err = "") =>
        Covered(ManifestOf(last.cleanup)) = {}

\* a cleanup removed covered file entries and kept a directory entry
C5_Witness ==
    /\ last.cleanup.ran
    /\ ~last.dry
    /\ last.cleanup.err = ""
    /\ last.cleanup.n > 0
    /\ Covered(last.preIx) # {}
    /\ Len(ManifestOf(last.cleanup)) = Len(last.preIx) - last.cleanup.n

\* the outcomes of deploy that leave an entry alone and say so
DeploySkips == {"not a symlink", "repo file missing", "metadata"}

\* what was at p in f, and all that was below it, is in g as it was in f
KeptAt(f, g, p) ==
    \A r \in DOMAIN TreeAt(f, p) :
        r \in DOMAIN TreeAt(g, p) /\ TreeAt(g, p)[r] = TreeAt(f, p)[r]

\* C6: deploy leaves alone whatever exists as a file or directory, not a
\* symlink, at an entry's original location: the entry is skipped with a
\* warning, and the object and all that was below it stay as they were to the
\* end of the command (the symlink of another entry may appear inside such a
\* directory).
C6_DeployKeepsNonSymlinks ==
    last.op = "deploy" =>
        \A i \in DOMAIN last.out :
            /\ TypeAt(last.seen[i].fs, Lstat(last.seen[i].fs, last.preIx[i].OriginalPath))
                   \in {"file", "dir"} =>
                 /\ last.out[i] \in DeploySkips
                 /\ KeptAt(last.seen[i].fs, fs, last.preIx[i].OriginalPath)
            /\ TypeAt(last.preFs, Lstat(last.preFs, last.preIx[i].OriginalPath))
                   \in {"file", "dir"} =>
                 KeptAt(last.preFs, fs, last.preIx[i].OriginalPath)

\* a deploy met the regular file ~/a at the location of an entry whose stored
\* copy exists, and deployed another entry
C6_Witness ==
    /\ last.op = "deploy"
    /\ HomeA \in DOMAIN last.preFs
    /\ last.preFs[HomeA] = FileNode("A")
    /\ \E i \in DOMAIN last.out :
           /\ last.preIx[i].OriginalPath = HomeA
           /\ PathExists(last.preFs, Join(DotmanDir, last.preIx[i].RepoPath))
    /\ \E j \in DOMAIN last.out : last.out[j] = "deployed"

\* the filesystem the fix pass left after its i-th entry
FixAfter(i) == IF i < Len(last.fix.seen) THEN last.fix.seen[i + 1] ELSE fs

\* the entry's original location is a symlink to its stored copy, which exists
LinkedToStore(f, file) ==
    /\ IsSymlink(f, file.OriginalPath)
    /\ Readlink(f, Lstat(f, file.OriginalPath)) = Join(DotmanDir, file.RepoPath)
    /\ PathExists(f, Join(DotmanDir, file.RepoPath))

\* C7: fix does nothing to an entry whose original location is a symlink that
\* already targets its stored copy: the filesystem is the same after the entry
\* as before it, and the entry counts neither as fixed nor as a problem.
C7_FixLeavesCorrectLink ==
    last.fix.ran =>
        \A i \in DOMAIN last.fix.out :
            LinkedToStore(last.fix.seen[i], Manifest[i]) =>
                /\ FixAfter(i) = last.fix.seen[i]
                /\ FixedCount(<<last.fix.out[i]>>) = 0
                /\ ProblemCount(<<last.fix.out[i]>>) = 0

\* a fix met a correct symlink
C7_Witness ==
    /\ last.fix.ran
    /\ \E i \in DOMAIN last.fix.out : LinkedToStore(last.fix.seen[i], Manifest[i])

\* the entry's stored copy exists and its original location is absent or a
\* symlink whose target does not exist
Repairable(f, file) ==
    /\ PathExists(f, Join(DotmanDir, file.RepoPath))
    /\ \/ ~Lstat(f, file.OriginalPath).ok
       \/ IsSymlink(f, file.OriginalPath) /\ ~PathExists(f, file.OriginalPath)

\* C8: a fix that is no preview leaves the original location of every entry
\* whose stored copy exists, and whose original location was absent or a stale
\* symlink, a symlink that targets the stored copy.
C8_FixRepairsAbsentOrStale ==
    (last.fix.ran /\ ~last.dry) =>
        \A i \in DOMAIN last.fix.out :
            Repairable(last.fix.seen[i], Manifest[i]) =>
                /\ IsSymlink(FixAfter(i), Manifest[i].OriginalPath)
                /\ Readlink(FixAfter(i), Lstat(FixAfter(i), Manifest[i].OriginalPath))
                       = Join(DotmanDir, Manifest[i].RepoPath)

\* C9: a multi-path add or remove attempts every path, in argument order and
\* whatever failed before: each path has its outcome, a success shows in the
\* manifest the path was attempted on and a failure leaves that manifest alone;
\* the successes and failures are counted; and the command returns an error
\* exactly when some path failed and none succeeded.
C9_MultiPathTally ==
    last.op \in {"add", "remove"} =>
        /\ Len(last.out) = Len(last.args)
        /\ \A i \in DOMAIN last.out :
               IF last.out[i] = ""
               THEN /\ (EntriesOf(last.seen[i].ix, Typed(last.args[i])) = {}) = (last.op = "add")
                    /\ (EntriesOf(After(i).ix, Typed(last.args[i])) = {}) = (last.op = "remove")
               ELSE After(i).ix = last.seen[i].ix
        /\ last.n = Cardinality({i \in DOMAIN last.out : last.out[i] = ""})
        /\ last.failures = Cardinality({i \in DOMAIN last.out : last.out[i] # ""})
        /\ last.failed = (/\ \E i \in DOMAIN last.out : last.out[i] # ""
                          /\ \A i \in DOMAIN last.out : last.out[i] # "")

\* an add went on to ~/a after /e/x had failed
C9_Witness ==
    /\ last.op = "add"
    /\ last.args = <<RawOut, RawA>>
    /\ last.out[1] # ""
    /\ last.out[2] = ""
    /\ ~last.failed

\* an add of two paths whose first path succeeded and whose second path was
\* managed already
OneAddedOneManaged ==
    /\ last.op = "add"
    /\ Len(last.args) = 2
    /\ last.out[1] = ""
    /\ EntriesOf(last.preIx, Typed(last.args[2])) # {}

\* C10 as stated: the add reports one success and one failure, returns an
\* error (an exit status that tells it from a fully successful run), and the
\* manifest has exactly one new entry.
C10_PartialFailureExit ==
    OneAddedOneManaged =>
        /\ last.n = 1
        /\ last.failures = 1
        /\ last.failed
        /\ Len(Manifest) = Len(last.preIx) + 1

\* C10 amended: the add reports one success and one failure and the manifest
\* has exactly one new entry, but the command returns no error: its exit
\* status is that of a fully successful run.
C10_PartialFailureReported ==
    OneAddedOneManaged =>
        /\ last.n = 1
        /\ last.failures = 1
        /\ ~last.failed
        /\ Len(Manifest) = Len(last.preIx) + 1
        /\ \A i \in DOMAIN last.preIx : Manifest[i] = last.preIx[i]
        /\ Manifest[Len(Manifest)].OriginalPath = Typed(last.args[1])

\* ~/a was added together with ~/d, which was managed
C10_Witness ==
    /\ OneAddedOneManaged
    /\ last.args = <<RawA, RawD>>
    /\ last.out[2] = "already managed"

\* the home location of a store file is covered by a directory entry of ix
CoveredBy(ix, p) ==
    \E j \in DOMAIN ix :
        ix[j].Type = "directory" /\ StrictlyBelow(p, ix[j].OriginalPath)

\* discovery on the manifest ix found the store files found and left the
\* manifest after: none of the files found, and no entry registered, lies below
\* a directory entry of ix
SkipsCovered(ix, found, after) ==
    /\ \A k \in DOMAIN found : ~CoveredBy(ix, Join(HomeDir, found[k]))
    /\ \A k \in DOMAIN after :
           k > Len(ix) => ~CoveredBy(ix, after[k].OriginalPath)

\* C11: discovery never reports as unmanaged, and never registers, a store
\* file whose home location lies strictly below the original path of a
\* directory entry: for the sync command and for the sync pass of status.
C11_DiscoverySkipsCovered ==
    /\ last.op = "sync" => SkipsCovered(last.preIx, last.found, Manifest)
    /\ last.sync.ran =>
           SkipsCovered(ManifestOf(last.cleanup), last.sync.found, ManifestOf(last.sync))

\* the store files discovery is to report on the filesystem f and manifest ix,
\* by their paths relative to the store: the regular files of the store tree,
\* outside the .git directory and but for index.json, whose home location is
\* neither an entry nor covered by a directory entry
ToReport(f, ix) ==
    {RelStr(DotmanDir, q) :
        q \in {x \in DOMAIN f :
                 /\ StrictlyBelow(x, DotmanDir)
                 /\ f[x].t = "file"
                 /\ ~IsPrefixPath(GitDir, x)
                 /\ x # IndexFile
                 /\ ~IsManaged(ix, Join(HomeDir, RelStr(DotmanDir, x)))
                 /\ ~CoveredBy(ix, Join(HomeDir, RelStr(DotmanDir, x)))}}

\* C12: the sync command reports as unmanaged every regular file of the store
\* tree whose home location is neither an entry nor covered by a directory
\* entry, leaving out only what is inside the .git directory and index.json.
C12_DiscoveryReportsAll ==
    (last.op = "sync" /\ ~last.failed) =>
        {last.found[k] : k \in DOMAIN last.found} = ToReport(last.preFs, last.preIx)

\* C13: no command creates, removes or renames anything outside the home
\* directory: what is outside it stays as it was at the start, also when deploy
\* and fix make the symlinks of a manifest that came with a clone.
C13_NothingOutsideHomeChanges ==
    \A q \in DOMAIN fs \cup DOMAIN BaseFs :
        ~IsPrefixPath(HomeDir, q) =>
            q \in DOMAIN fs /\ q \in DOMAIN BaseFs /\ fs[q] = BaseFs[q]

\* C14: ExpandPath takes "~/x" to the home directory joined with x and any
\* other path to its absolute form, and accepts the result exactly when it is
\* the home directory or lies below it: add and remove turn a path down as
\* outside home exactly when its path relative to home begins with the
\* segment "..".
C14_ExpandPathAcceptsHome ==
    last.op \in {"add", "remove"} =>
        \A i \in DOMAIN last.args :
            /\ HasPrefix(last.args[i], <<"~", "/">>) =>
                   Typed(last.args[i])
                       = Join(HomeDir, SubSeq(last.args[i], 3, Len(last.args[i])))
            /\ (last.out[i] = "outside home")
                   = ~IsPrefixPath(HomeDir, Typed(last.args[i]))

C16_CloneFailsCleanly ==
    last.op = "clone" =>
        IF DotmanDirExists(last.preFs)
        THEN last.failed /\ fs = last.preFs /\ Manifest = last.preIx
        ELSE (<<IndexFileName>> \notin DOMAIN last.args[1].tree \/ ~last.args[1].valid) =>
                 /\ last.failed
                 /\ ~Lstat(fs, DotmanDir).ok
                 /\ fs = last.preFs

\* a clone brought an index.json that does not parse
C16_Witness ==
    /\ last.op = "clone"
    /\ ~DotmanDirExists(last.preFs)
    /\ last.args = <<RemoteBroken>>
    /\ last.out = <<"invalid index">>

\* C17: status prints a line for an entry of the manifest exactly when the
\* entry is top-level, its original path not strictly below the original path
\* of a directory entry; covered entries of either kind get no line and are
\* not counted as broken.
C17_StatusListsTopLevel ==
    (last.op = "status" /\ DotmanDirExists(last.preFs)) =>
        /\ \A i \in DOMAIN ManifestOf(last.sync) :
               (\E k \in DOMAIN last.out :
                    last.out[k].path = ManifestOf(last.sync)[i].OriginalPath)
                   = ~CoveredBy(ManifestOf(last.sync), ManifestOf(last.sync)[i].OriginalPath)
        /\ last.n = Cardinality({k \in DOMAIN last.out :
                        /\ last.out[k].broken
                        /\ ~CoveredBy(ManifestOf(last.sync), last.out[k].path)})

\* C18: isWithinManagedDirectory(path, dirs) is true exactly when path lies
\* strictly below, by whole segments, some element of dirs: false for a
\* directory of dirs itself, false when a directory is only a prefix of the
\* string, true when any one of several nested directories is above it.
\* Checked where status and sync apply it: on the paths that exist and the
\* original paths of the manifest, against the manifest's directories.
C18_WithinBySegments ==
    last.op \in {"status", "sync"} =>
        \A p \in DOMAIN fs \cup {Manifest[i].OriginalPath : i \in DOMAIN Manifest} :
            isWithinManagedDirectory(p, getManagedDirectories(Manifest))
                = CoveredBy(Manifest, p)

\* status ran on a manifest with ~/d, ~/d/s below it, ~/dz beside it, and
\* ~/d/s/f below both directories
C18_Witness ==
    /\ last.op = "status"
    /\ last.sync.ran
    /\ Len(getManagedDirectories(Manifest)) = 2
    /\ \E i \in DOMAIN Manifest : Manifest[i].OriginalPath = Join(HomeDir, <<"d", "z">>)
    /\ \E i \in DOMAIN Manifest :
           Manifest[i].OriginalPath = Join(HomeD, <<"s", "/", "f">>)
    /\ \E k \in DOMAIN last.out : last.out[k].path = Join(HomeDir, <<"d", "z">>)

\* the entries of ix that are not entries of kind file covered by a directory
\* entry of ix, in their order
Uncovered(ix) ==
    LET keep(e) == ~(e.Type = "file" /\ CoveredBy(ix, e.OriginalPath))
    IN  SelectSeq(ix, keep)

\* C19: a cleanup that is no preview changes only the manifest.  It removes
\* exactly the entries of kind file covered by a directory entry and keeps the
\* others as they are and in their order; every file, directory and symlink in
\* home and every stored copy is as before.
C19_CleanupOnlyManifest ==
    (last.cleanup.ran /\ ~last.dry /\ last.cleanup.err = "") =>
        /\ ManifestOf(last.cleanup) = Uncovered(last.preIx)
        /\ DOMAIN last.cleanup.st.fs = DOMAIN last.preFs
        /\ \A q \in DOMAIN last.preFs :
               q # IndexFile => last.cleanup.st.fs[q] = last.preFs[q]
        /\ IndexFileExists(last.preFs) => last.cleanup.st.fs[IndexFile].t = "file"

\* a cleanup dropped a covered file entry and kept a file entry and a
\* directory entry after it
C19_Witness ==
    /\ last.cleanup.ran
    /\ ~last.dry
    /\ Len(ManifestOf(last.cleanup)) < Len(last.preIx)
    /\ \E i, j \in DOMAIN ManifestOf(last.cleanup) :
           /\ i < j
           /\ ManifestOf(last.cleanup)[i].Type = "directory"
           /\ ManifestOf(last.cleanup)[j].Type = "file"
    /\ \E q \in DOMAIN last.preFs : last.preFs[q].t = "link"

\* C20: add and deploy with --dry-run only show what would happen: no file is
\* moved, no symlink is made, and the manifest and the git history are as
\* before.
C20_DryRunChangesNothing ==
    (last.op \in {"add", "deploy"} /\ last.dry) =>
        /\ fs = last.preFs
        /\ Manifest = last.preIx
        /\ last.commits = 0

\* the fix loop run as a preview on the filesystem f and the manifest ix
FixPreview(f, ix) == FixEach([fs |-> f, out |-> <<>>, seen |-> <<>>], ix, TRUE)

\* C21: in preview (dry-run) mode fix, cleanup and discovery change nothing.
\* After status or sync with --dry-run, whatever other flags are given, the
\* manifest, the store, every symlink in home and the git history are as
\* before the command; and the loop of fix run as a preview returns the
\* filesystem it was given.
C21_PreviewChangesNothing ==
    (last.op \in {"status", "sync"} /\ last.dry) =>
        /\ fs = last.preFs
        /\ Manifest = last.preIx
        /\ last.commits = 0
        /\ last.op = "status" => FixPreview(fs, Manifest).fs = fs

\* status --cleanup --sync --fix --dry-run met a covered file entry, a store
\* file no entry lists and a broken entry
C21_Witness ==
    /\ last.op = "status"
    /\ last.dry
    /\ last.cleanup.ran
    /\ last.cleanup.n > 0
    /\ last.sync.ran
    /\ Len(last.sync.found) > 0
    /\ last.n > 0
    /\ \E i \in DOMAIN Manifest : FixPreview(fs, Manifest).out[i] = "would fix"

\* the last command was an add of one path that moved the path into the store
\* and could not make the symlink
AddFailedToLink ==
    /\ last.op = "add"
    /\ Len(last.args) = 1
    /\ last.out = <<"symlink">>

\* the path is, before the last command, the file at its own place in the store
\* (it is reached through the symlink of a managed directory)
IsOwnStoredCopy(p) == Lstat(last.preFs, p).p = Lstat(last.preFs, Stored(p)).p

C23_FailedRemoveChangesNothing ==
    (/\ last.op = "remove"
     /\ Len(last.args) = 1
     /\ last.out[1] \in {"not managed", "restore"}) =>
        /\ last.failed
        /\ TreeAt(fs, Typed(last.args[1])) = TreeAt(last.preFs, Typed(last.args[1]))
        /\ Manifest = last.preIx

\* the entry needs manual intervention on f: its stored copy is missing, or
\* its original location is a file or directory, or a symlink to something
\* that exists and is not the stored copy
NeedsManual(f, file) ==
    \/ ~PathExists(f, Join(DotmanDir, file.RepoPath))
    \/ TypeAt(f, Lstat(f, file.OriginalPath)) \in {"file", "dir"}
    \/ /\ IsSymlink(f, file.OriginalPath)
       /\ PathExists(f, file.OriginalPath)
       /\ Readlink(f, Lstat(f, file.OriginalPath)) # Join(DotmanDir, file.RepoPath)

\* the outcomes of fix that report a problem
FixProblems == {"repo file missing", "wrong target", "not a symlink"}

\* C24: fix never resolves a manual-intervention condition by itself.  For an
\* entry whose stored copy is missing, or whose original location is no
\* symlink, or a symlink to an existing target other than the stored copy, the
\* handling of the entry changes nothing, the entry is reported as a problem
\* and not as fixed, and what was at its original location and at its place in
\* the store is still there when fix ends; the same in a preview.
C24_FixLeavesManualCases ==
    /\ last.fix.ran =>
         \A i \in DOMAIN last.fix.out :
             NeedsManual(last.fix.seen[i], Manifest[i]) =>
                 /\ FixAfter(i) = last.fix.seen[i]
                 /\ last.fix.out[i] \in FixProblems
                 /\ FixedCount(<<last.fix.out[i]>>) = 0
                 /\ ProblemCount(<<last.fix.out[i]>>) = 1
                 /\ KeptAt(last.fix.seen[i], fs, Manifest[i].OriginalPath)
                 /\ KeptAt(last.fix.seen[i], fs, Join(DotmanDir, Manifest[i].RepoPath))
    /\ (last.op = "status" /\ last.dry) =>
         \A i \in DOMAIN Manifest :
             NeedsManual(FixPreview(fs, Manifest).seen[i], Manifest[i]) =>
                 /\ FixPreview(fs, Manifest).out[i] \in FixProblems
                 /\ FixPreview(fs, Manifest).fs = fs

\* a fix that repaired an entry met a symlink to a file outside the store and
\* a directory at the locations of other entries
C24_Witness ==
    /\ last.fix.ran
    /\ \E i \in DOMAIN last.fix.out : last.fix.out[i] = "fixed"
    /\ \E i \in DOMAIN last.fix.out :
           /\ last.fix.out[i] = "wrong target"
           /\ Readlink(fs, Lstat(fs, Manifest[i].OriginalPath)) = OutX
    /\ \E i \in DOMAIN last.fix.out :
           /\ last.fix.out[i] = "not a symlink"
           /\ TypeAt(last.preFs, Lstat(last.preFs, Manifest[i].OriginalPath)) = "dir"

\* C25: in every state reached from no store or an empty one by init, add and
\* remove, whichever of their steps fail, the manifest and the filesystem
\* agree: the original path of every entry is a symlink to the entry's stored
\* copy, and the stored copy exists.
C25_ManifestMatchesFilesystem ==
    \A i \in DOMAIN Manifest : LinkedToStore(fs, Manifest[i])

\* the entries fix made, or in a preview would make, the symlink of
FixedBy(out) == {i \in DOMAIN out : out[i] \in {"fixed", "would fix"}}

\* C26: the preview of fix is accurate.  The entries the loop of fix reports
\* as "would fix" when run as a preview on the state a fix started from are
\* the entries that fix repaired: reported as fixed and, when fix ends, with a
\* symlink to their stored copy at their original location.
C26_FixPreviewAccurate ==
    (last.fix.ran /\ last.fix.seen # <<>>) =>
        /\ FixedBy(FixPreview(last.fix.seen[1], Manifest).out) = FixedBy(last.fix.out)
        /\ \A i \in FixedBy(last.fix.out) : LinkedToStore(fs, Manifest[i])

\* C27: add never destroys content already in the store.  When the store
\* holds a file at the repo path of p and the manifest has no entry for p,
\* whether the add of p succeeds or fails that file is afterwards in the store
\* as it was.
C27_AddKeepsStoredContent ==
    (/\ last.op = "add"
     /\ Len(last.args) = 1
     /\ IsPrefixPath(HomeDir, Typed(last.args[1]))
     /\ TypeAt(last.preFs, Lstat(last.preFs, Stored(Typed(last.args[1])))) = "file"
     /\ EntriesOf(last.preIx, Typed(last.args[1])) = {}) =>
        KeptAt(last.preFs, fs, Stored(Typed(last.args[1])))

\* C28: add refuses a path that lies inside the store directory (the store
\* itself, index.json, a stored copy): the add fails and moves nothing, so
\* the filesystem and the manifest are as before.
C28_AddRefusesStorePaths ==
    (/\ last.op = "add"
     /\ Len(last.args) = 1
     /\ IsPrefixPath(DotmanDir, Typed(last.args[1]))) =>
        /\ last.failed
        /\ fs = last.preFs
        /\ Manifest = last.preIx

\* the pairs of entries of the manifest deploy ran on: a directory entry,
\* itself below no other, and a file entry below it, both with their stored
\* copies and neither with anything at its original location when deploy
\* started
DeployedNested ==
    {p \in (DOMAIN last.preIx) \X (DOMAIN last.preIx) :
        /\ last.preIx[p[1]].Type = "directory"
        /\ ~CoveredBy(last.preIx, last.preIx[p[1]].OriginalPath)
        /\ last.preIx[p[2]].Type = "file"
        /\ StrictlyBelow(last.preIx[p[2]].OriginalPath, last.preIx[p[1]].OriginalPath)
        /\ PathExists(last.preFs, Join(DotmanDir, last.preIx[p[1]].RepoPath))
        /\ PathExists(last.preFs, Join(DotmanDir, last.preIx[p[2]].RepoPath))
        /\ ~Lstat(last.preFs, last.preIx[p[1]].OriginalPath).ok
        /\ ~Lstat(last.preFs, last.preIx[p[2]].OriginalPath).ok}

\* C29: the result of deploy does not depend on the order of the manifest.
\* For a directory entry and a file entry below it, stored copies present and
\* neither original location existing, after deploy the directory's original
\* location is a symlink to the stored directory, whichever entry comes first.
C29_DeployOrderIndependent ==
    last.op = "deploy" =>
        \A p \in DeployedNested : LinkedToStore(fs, last.preIx[p[1]])

\* C30: discovery that adds without asking is idempotent.  After the sync
\* pass of status (no preview) has ended without error, the same discovery
\* run again at once finds no unmanaged file and leaves the filesystem and the
\* manifest as they are; and so for the sync command after it has added what
\* it found.
C30_SyncIdempotent ==
    /\ (last.sync.ran /\ ~last.dry /\ last.sync.err = "") =>
         /\ findUnmanagedFilesStatus(last.sync.st.fs, DotmanDir, ManifestOf(last.sync)) = <<>>
         /\ runSync(last.sync.st, FALSE, TRUE, FALSE).st = last.sync.st
         /\ runSync(last.sync.st, FALSE, TRUE, FALSE).added = 0
    /\ (last.op = "sync" /\ ~last.dry /\ ~last.failed /\ last.n > 0) =>
         /\ findUnmanagedFiles(fs, DotmanDir, Manifest) = <<>>
         /\ runSyncDiscover(St, FALSE, TRUE, FALSE).st = St

\* the sync pass of status added the store files it found to a manifest
C30_Witness ==
    /\ last.sync.ran
    /\ ~last.dry
    /\ last.sync.err = ""
    /\ Len(last.sync.found) > 1
    /\ last.sync.n = Len(last.sync.found)
    /\ Len(ManifestOf(last.sync)) = Len(ManifestOf(last.cleanup)) + last.sync.n

====
